---------------------------- MODULE Spec2Model ----------------------------
(***************************************************************************)
(* A model of src/main.py: the Bengali date normalizer, the two site       *)
(* adapters (Jamuna, DBC News), the orchestrator NewsScraperBase.scrape,   *)
(* the scraper factory and the two endpoints.                              *)
(*                                                                         *)
(* Strings are sequences of characters.  An ASCII character is itself; a   *)
(* Bengali code point is named by its code point ("u09E9" is the digit     *)
(* three), so that the module is plain ASCII.  Python's None is the value  *)
(* None below, which no string equals.                                     *)
(***************************************************************************)
EXTENDS Integers, Sequences, FiniteSets, TLC

VARIABLES
    pc,         \* position of the running call
    raw,        \* parse_bengali_date: the argument
    now,        \* parse_bengali_date: what datetime.now() returned, if read
    normalized, \* parse_bengali_date: the value returned
    request,    \* the request being served, or the last one served
    scraper,    \* the adapter get_scraper constructed for the request
    limit,      \* scrape: the argument limit
    links,      \* scrape: the list get_article_links returned
    idx,        \* scrape: how many of links[:limit] the loop has taken
    results,    \* scrape: the list results
    fetched,    \* the listing URLs fetched while serving the request
    parsed,     \* the links parse_article was called on, in call order
    dropped,    \* the links whose parse_article call raised
    queue,      \* scrape_all: the sources the loop has yet to take
    allResults, \* scrape_all: the dict results
    response,   \* what the last request answered
    files,      \* data/<source>.json, per source
    observed,   \* per source scraped by the request: what discovery and the parses did
    lastOk,     \* per source: what its most recent scrape that returned, returned
    listing,    \* get_article_links: the listing page fetched
    page,       \* parse_article: the article page fetched (and its URL)
    record      \* parse_article: the dict returned

dateVars == <<raw, now, normalized>>
scrapeVars == <<limit, links, idx, results, parsed, dropped>>
endpointVars ==
    <<request, scraper, fetched, queue, allResults, response, files, observed, lastOk>>
articleVars == <<listing, page, record>>
vars == <<pc, dateVars, scrapeVars, endpointVars, articleVars>>

-----------------------------------------------------------------------------
(* Strings *)

None == <<"<None>">>

Range(s) == { s[i] : i \in 1..Len(s) }

Min(S) == CHOOSE x \in S : \A y \in S : x <= y

\* the k-th smallest element of the set S of numbers
RECURSIVE Kth(_, _)
Kth(S, k) == IF k = 1 THEN Min(S) ELSE Kth(S \ {Min(S)}, k - 1)

\* the least index of c in s (str.index)
IndexOf(s, c) == Min({ i \in 1..Len(s) : s[i] = c })

\* Python: w in s
Contains(s, w) ==
    \E i \in 1..(Len(s) - Len(w) + 1) : SubSeq(s, i, i + Len(w) - 1) = w

\* Python: s.startswith(p)
StartsWith(s, p) == Len(p) <= Len(s) /\ SubSeq(s, 1, Len(p)) = p

Whitespace == {" ", "\t", "\n"}

RECURSIVE LStrip(_)
LStrip(s) ==
    IF s # <<>> /\ Head(s) \in Whitespace THEN LStrip(Tail(s)) ELSE s

RECURSIVE RStrip(_)
RStrip(s) ==
    IF s # <<>> /\ s[Len(s)] \in Whitespace
    THEN RStrip(SubSeq(s, 1, Len(s) - 1)) ELSE s

\* Python: s.strip()
Strip(s) == RStrip(LStrip(s))

\* Python: s.split(c) for a one-character separator: every occurrence of c
\* splits, so two adjacent separators give an empty part.
RECURSIVE Split(_, _)
Split(s, c) ==
    LET at == { i \in 1..Len(s) : s[i] = c } IN
    IF at = {} THEN <<s>>
    ELSE LET i == Min(at) IN
         <<SubSeq(s, 1, i - 1)>> \o Split(SubSeq(s, i + 1, Len(s)), c)

\* Python: sep.join(parts)
RECURSIVE Join(_, _)
Join(parts, sep) ==
    IF parts = <<>> THEN <<>>
    ELSE IF Len(parts) = 1 THEN parts[1]
    ELSE parts[1] \o sep \o Join(Tail(parts), sep)

\* the elements of s at the positions keep, in order
Pick(s, keep) ==
    LET F[i \in 0..Len(s)] ==
            IF i = 0 THEN <<>>
            ELSE IF i \in keep THEN Append(F[i - 1], s[i]) ELSE F[i - 1]
    IN F[Len(s)]

AsciiDigits == <<"0", "1", "2", "3", "4", "5", "6", "7", "8", "9">>

\* str(n) for n >= 0
RECURSIVE NatStr(_)
NatStr(n) ==
    IF n < 10 THEN <<AsciiDigits[n + 1]>>
    ELSE NatStr(n \div 10) \o <<AsciiDigits[(n % 10) + 1]>>

\* Python: s.zfill(w), s without a sign
RECURSIVE ZFill(_, _)
ZFill(s, w) == IF Len(s) >= w THEN s ELSE ZFill(<<"0">> \o s, w)

\* Python: format(n, "0{w}d"): the sign counts in the width
Pad(n, w) ==
    IF n < 0 THEN <<"-">> \o ZFill(NatStr(-n), w - 1) ELSE ZFill(NatStr(n), w)

-----------------------------------------------------------------------------
(* convert_bengali_to_english_digits, src/main.py 20-24 *)

\* "০১২৩৪৫৬৭৮৯"
bengali_digits ==
    <<"u09E6", "u09E7", "u09E8", "u09E9", "u09EA",
      "u09EB", "u09EC", "u09ED", "u09EE", "u09EF">>

convert_bengali_to_english_digits(s) ==
    [ i \in 1..Len(s) |->
        IF s[i] \in Range(bengali_digits)
        THEN AsciiDigits[IndexOf(bengali_digits, s[i])]
        ELSE s[i] ]

-----------------------------------------------------------------------------
(* int(), as far as the inputs below reach it: an optional sign and then   *)
(* one or more decimal digits (ASCII or Bengali); anything else raises     *)
(* ValueError.  (Python's int also accepts surrounding whitespace and      *)
(* single underscores between digits; no input below has them.)            *)

DigitChars == Range(AsciiDigits) \cup Range(bengali_digits)

DigitVal(c) ==
    IF c \in Range(AsciiDigits) THEN IndexOf(AsciiDigits, c) - 1
    ELSE IndexOf(bengali_digits, c) - 1

Unsigned(s) == IF s # <<>> /\ Head(s) \in {"+", "-"} THEN Tail(s) ELSE s

\* int(s) does not raise
IsInt(s) == Unsigned(s) # <<>> /\ Range(Unsigned(s)) \subseteq DigitChars

RECURSIVE NatOf(_)
NatOf(s) ==
    IF s = <<>> THEN 0
    ELSE 10 * NatOf(SubSeq(s, 1, Len(s) - 1)) + DigitVal(s[Len(s)])

\* int(s), where IsInt(s)
IntOf(s) ==
    IF Head(s) = "-" THEN 0 - NatOf(Unsigned(s)) ELSE NatOf(Unsigned(s))

-----------------------------------------------------------------------------
(* datetime: the fields of a datetime object, replace() and isoformat() *)

IsLeap(y) == (y % 4 = 0 /\ y % 100 # 0) \/ y % 400 = 0

DaysInMonth(y, m) ==
    IF m = 2 THEN (IF IsLeap(y) THEN 29 ELSE 28)
    ELSE IF m \in {4, 6, 9, 11} THEN 30 ELSE 31

\* the datetime constructor accepts these fields (it raises ValueError otherwise)
ValidDateTime(t) ==
    /\ t.month \in 1..12
    /\ t.day \in 1..DaysInMonth(t.year, t.month)
    /\ t.hour \in 0..23
    /\ t.minute \in 0..59
    /\ t.second \in 0..59

\* the clock was not read
NotRead ==
    [year |-> 0, month |-> 0, day |-> 0, hour |-> 0, minute |-> 0, second |-> 0,
     microsecond |-> 0]

\* datetime.isoformat(): the microseconds are written when they are not zero
isoformat(t) ==
    Pad(t.year, 4) \o <<"-">> \o Pad(t.month, 2) \o <<"-">> \o Pad(t.day, 2)
    \o <<"T">> \o Pad(t.hour, 2) \o <<":">> \o Pad(t.minute, 2)
    \o <<":">> \o Pad(t.second, 2)
    \o (IF t.microsecond # 0 THEN <<".">> \o Pad(t.microsecond, 6) ELSE <<>>)

-----------------------------------------------------------------------------
(* parse_bengali_date, src/main.py 27-102 *)

\* "আগে" (ago)
AGO == <<"u0986", "u0997", "u09C7">>
\* "মিনিট" (minute)
MINUTE_WORD == <<"u09AE", "u09BF", "u09A8", "u09BF", "u099F">>
\* "ঘন্টা" (hour)
HOUR_WORD == <<"u0998", "u09A8", "u09CD", "u099F", "u09BE">>
\* "দিন" (day)
DAY_WORD == <<"u09A6", "u09BF", "u09A8">>
\* "পূর্বাহ্ন" (before noon)
AM == <<"u09AA", "u09C2", "u09B0", "u09CD", "u09AC", "u09BE", "u09B9", "u09CD", "u09A8">>
\* "অপরাহ্ন" (after noon)
PM == <<"u0985", "u09AA", "u09B0", "u09BE", "u09B9", "u09CD", "u09A8">>

\* the dict months, as its items in source order
months == <<
    <<<<"u099C", "u09BE", "u09A8", "u09C1", "u09AF", "u09BC", "u09BE", "u09B0", "u09BF">>, <<"0", "1">>>>,
    <<<<"u09AB", "u09C7", "u09AC", "u09CD", "u09B0", "u09C1", "u09AF", "u09BC", "u09BE", "u09B0", "u09BF">>, <<"0", "2">>>>,
    <<<<"u09AE", "u09BE", "u09B0", "u09CD", "u099A">>, <<"0", "3">>>>,
    <<<<"u098F", "u09AA", "u09CD", "u09B0", "u09BF", "u09B2">>, <<"0", "4">>>>,
    <<<<"u09AE", "u09C7">>, <<"0", "5">>>>,
    <<<<"u099C", "u09C1", "u09A8">>, <<"0", "6">>>>,
    <<<<"u099C", "u09C1", "u09B2", "u09BE", "u0987">>, <<"0", "7">>>>,
    <<<<"u0986", "u0997", "u09B8", "u09CD", "u099F">>, <<"0", "8">>>>,
    <<<<"u09B8", "u09C7", "u09AA", "u09CD", "u099F", "u09C7", "u09AE", "u09CD", "u09AC", "u09B0">>, <<"0", "9">>>>,
    <<<<"u0985", "u0995", "u09CD", "u099F", "u09CB", "u09AC", "u09B0">>, <<"1", "0">>>>,
    <<<<"u09A8", "u09AD", "u09C7", "u09AE", "u09CD", "u09AC", "u09B0">>, <<"1", "1">>>>,
    <<<<"u09A1", "u09BF", "u09B8", "u09C7", "u09AE", "u09CD", "u09AC", "u09B0">>, <<"1", "2">>>> >>

\* months.get(name, default)
months_get(name, default) ==
    IF \E i \in 1..Len(months) : months[i][1] = name
    THEN months[CHOOSE i \in 1..Len(months) : months[i][1] = name][2]
    ELSE default

\* re.sub(r"[^০-৯]", "", s): only the Bengali digits of s are kept
only_bengali_digits(s) == SelectSeq(s, LAMBDA c : c \in Range(bengali_digits))

\* lines 36-59: the relative form; t is what datetime.now() returns.
\* parts[0] always exists; int() or replace() raising is caught (line 60).
parse_relative(r, t) ==
    LET parts  == Split(r, " ")
        digits == convert_bengali_to_english_digits(parts[1])
    IN
    IF ~IsInt(digits) THEN None
    ELSE
      LET num == IntOf(digits)
          unit == IF Contains(r, MINUTE_WORD) THEN "minute"
                  ELSE IF Contains(r, HOUR_WORD) THEN "hour"
                  ELSE IF Contains(r, DAY_WORD) THEN "day"
                  ELSE "none"
          replaced ==
              IF unit = "minute" THEN [t EXCEPT !.minute = t.minute - num]
              ELSE IF unit = "hour" THEN [t EXCEPT !.hour = t.hour - num]
              ELSE [t EXCEPT !.day = t.day - num]
      IN
      IF unit = "none" THEN None
      ELSE IF ~ValidDateTime(replaced) THEN None
      ELSE isoformat(replaced)

\* lines 80-102: the absolute form.  The tokens read are parts[1]..parts[5]
\* (zero-based): a missing one raises IndexError, a time without two
\* integer fields raises ValueError; both are caught (line 100).
parse_absolute(r) ==
    LET parts == Split(r, " ") IN
    IF Len(parts) < 6 THEN None
    ELSE
      LET day_raw  == only_bengali_digits(parts[2])
          day      == ZFill(convert_bengali_to_english_digits(day_raw), 2)
          month    == months_get(parts[3], <<"0", "1">>)
          year     == convert_bengali_to_english_digits(parts[4])
          time_raw == convert_bengali_to_english_digits(parts[5])
          fields   == Split(time_raw, ":")
          ampm     == parts[6]
      IN
      IF Len(fields) < 2 \/ \E i \in 1..Len(fields) : ~IsInt(fields[i])
      THEN None
      ELSE
        LET hour0  == IntOf(fields[1])
            minute == IntOf(fields[2])
            second == IF Len(fields) > 2 THEN IntOf(fields[3]) ELSE 0
            hour   == IF ampm = AM /\ hour0 = 12 THEN 0
                      ELSE IF ampm = PM /\ hour0 < 12 THEN hour0 + 12
                      ELSE hour0
        IN year \o <<"-">> \o month \o <<"-">> \o day \o <<"T">>
           \o Pad(hour, 2) \o <<":">> \o Pad(minute, 2) \o <<":">> \o Pad(second, 2)

\* line 34: the branch that reads the clock
is_relative(s) == s # None /\ s # <<>> /\ Contains(Strip(s), AGO)

parse_bengali_date(s, t) ==
    IF s = None \/ s = <<>> THEN None
    ELSE IF Contains(Strip(s), AGO) THEN parse_relative(Strip(s), t)
    ELSE parse_absolute(Strip(s))

-----------------------------------------------------------------------------
(* datetime.strptime(s, "%d %B %Y %I:%M %p"), as JamunaScraper uses it.    *)
(* The digits of the inputs are ASCII.                                     *)

UpperCase == <<"A", "B", "C", "D", "E", "F", "G", "H", "I", "J", "K", "L", "M",
               "N", "O", "P", "Q", "R", "S", "T", "U", "V", "W", "X", "Y", "Z">>
LowerCase == <<"a", "b", "c", "d", "e", "f", "g", "h", "i", "j", "k", "l", "m",
               "n", "o", "p", "q", "r", "s", "t", "u", "v", "w", "x", "y", "z">>

\* Python: s.lower(), for ASCII letters
Lower(s) ==
    [ i \in 1..Len(s) |->
        IF s[i] \in Range(UpperCase) THEN LowerCase[IndexOf(UpperCase, s[i])]
        ELSE s[i] ]

\* the month names %B matches (without regard to case), lower-cased
MonthNames == <<
    <<"j", "a", "n", "u", "a", "r", "y">>,
    <<"f", "e", "b", "r", "u", "a", "r", "y">>,
    <<"m", "a", "r", "c", "h">>,
    <<"a", "p", "r", "i", "l">>,
    <<"m", "a", "y">>,
    <<"j", "u", "n", "e">>,
    <<"j", "u", "l", "y">>,
    <<"a", "u", "g", "u", "s", "t">>,
    <<"s", "e", "p", "t", "e", "m", "b", "e", "r">>,
    <<"o", "c", "t", "o", "b", "e", "r">>,
    <<"n", "o", "v", "e", "m", "b", "e", "r">>,
    <<"d", "e", "c", "e", "m", "b", "e", "r">> >>

IsAsciiDigits(s) == s # <<>> /\ Range(s) \subseteq Range(AsciiDigits)

\* s matches the directive and stands for n:
\* %d is 1..31 in one or two digits, %Y four digits, %I 1..12, %M 0..59
MatchesNumber(s, lo, hi, minLen, maxLen) ==
    /\ IsAsciiDigits(s)
    /\ Len(s) >= minLen /\ Len(s) <= maxLen
    /\ NatOf(s) >= lo /\ NatOf(s) <= hi

NonEmpty(parts) == SelectSeq(parts, LAMBDA x : x # <<>>)

\* the fields strptime reads from s; a blank of the format matches one or
\* more blanks of s
strptime_fields(s) ==
    LET tokens == NonEmpty(Split(s, " "))
        clock  == IF Len(tokens) = 5 THEN Split(tokens[4], ":") ELSE <<>>
    IN [tokens |-> tokens, clock |-> clock]

\* strptime(s, format) does not raise ValueError
strptime_ok(s) ==
    LET f == strptime_fields(s) IN
    /\ s # <<>> /\ Head(s) # " " /\ s[Len(s)] # " "
    /\ Len(f.tokens) = 5
    /\ MatchesNumber(f.tokens[1], 1, 31, 1, 2)
    /\ Lower(f.tokens[2]) \in Range(MonthNames)
    /\ MatchesNumber(f.tokens[3], 1, 9999, 4, 4)
    /\ Len(f.clock) = 2
    /\ MatchesNumber(f.clock[1], 1, 12, 1, 2)
    /\ MatchesNumber(f.clock[2], 0, 59, 1, 2)
    /\ Lower(f.tokens[5]) \in {<<"a", "m">>, <<"p", "m">>}
    /\ NatOf(f.tokens[1]) <=
          DaysInMonth(NatOf(f.tokens[3]), IndexOf(MonthNames, Lower(f.tokens[2])))

\* the datetime strptime(s, format) returns, where strptime_ok(s)
strptime(s) ==
    LET f == strptime_fields(s)
        h == NatOf(f.clock[1])
        pm == Lower(f.tokens[5]) = <<"p", "m">>
    IN [year |-> NatOf(f.tokens[3]),
        month |-> IndexOf(MonthNames, Lower(f.tokens[2])),
        day |-> NatOf(f.tokens[1]),
        hour |-> IF pm THEN (IF h = 12 THEN 12 ELSE h + 12)
                 ELSE (IF h = 12 THEN 0 ELSE h),
        minute |-> NatOf(f.clock[2]),
        second |-> 0,
        microsecond |-> 0]

-----------------------------------------------------------------------------
(* JamunaScraper.parse_article, src/main.py 150-181 *)

\* an element or attribute the page does not have
Absent == <<"<Absent>">>

\* the page has no such <img>
NoImage == [src |-> <<"<NoImage>">>]

OrdinalSuffixes == {<<"s", "t">>, <<"n", "d">>, <<"r", "d">>, <<"t", "h">>}

\* re.sub(r"(\d+)(st|nd|rd|th)", r"\1", s): a suffix right after a digit goes
strip_ordinals(s) ==
    LET starts == { j \in 2..(Len(s) - 1) :
                      /\ s[j - 1] \in Range(AsciiDigits)
                      /\ SubSeq(s, j, j + 1) \in OrdinalSuffixes }
        gone == starts \cup { j + 1 : j \in starts }
    IN Pick(s, (1..Len(s)) \ gone)

\* s.replace(c, "")
without_char(s, c) == SelectSeq(s, LAMBDA x : x # c)

\* element.get_text(strip=True) of an element whose text is s
get_text(s) == Strip(s)

\* the text of the paragraphs that have any, lines 159-163 and 213-217
paragraph_texts(ps) ==
    NonEmpty([ i \in 1..Len(ps) |-> get_text(ps[i]) ])

\* lines 166-173
jamuna_published_at(raw_date) ==
    IF raw_date = Absent THEN None
    ELSE LET cleaned == without_char(strip_ordinals(get_text(raw_date)), ",") IN
         IF strptime_ok(cleaned) THEN isoformat(strptime(cleaned)) ELSE cleaned

\* lines 175-181; pg is the page at url
jamuna_parse_article(url, pg) ==
    [url |-> url,
     title |-> IF pg.title # Absent THEN get_text(pg.title) ELSE <<>>,
     cover_image |-> IF pg.image # NoImage
                     THEN (IF pg.image.src # Absent THEN pg.image.src ELSE None)
                     ELSE <<>>,
     published_at |-> jamuna_published_at(pg.raw_date),
     content |-> Join(paragraph_texts(pg.paragraphs), <<"\n">>)]

-----------------------------------------------------------------------------
(* DBCNewsScraper.parse_article, src/main.py 201-247 *)

\* the escapes urllib.parse.unquote meets in the inputs
Escapes ==
    { <<<<"%", "3", "A">>, ":">>, <<<<"%", "2", "F">>, "/">>,
      <<<<"%", "3", "F">>, "?">>, <<<<"%", "2", "6">>, "&">> }

\* urllib.parse.unquote(s)
RECURSIVE unquote(_)
unquote(s) ==
    IF s = <<>> THEN <<>>
    ELSE IF Len(s) >= 3 /\ \E e \in Escapes : e[1] = SubSeq(s, 1, 3)
    THEN <<(CHOOSE e \in Escapes : e[1] = SubSeq(s, 1, 3))[2]>>
         \o unquote(SubSeq(s, 4, Len(s)))
    ELSE <<Head(s)>> \o unquote(Tail(s))

\* re.search(r"url=([^&]+)", s): the group of the leftmost match, or Absent
url_parameter(s) ==
    LET key == <<"u", "r", "l", "=">>
        at == { i \in 1..(Len(s) - Len(key)) :
                  SubSeq(s, i, i + Len(key) - 1) = key /\ s[i + Len(key)] # "&" }
    IN IF at = {} THEN Absent
       ELSE LET from == Min(at) + Len(key)
                stops == { j \in from..Len(s) : s[j] = "&" }
            IN SubSeq(s, from, IF stops = {} THEN Len(s) ELSE Min(stops) - 1)

\* lines 230-239; img is the first <img> whose src matches "api.dbcnews.tv"
dbc_image_url(img) ==
    IF img = NoImage THEN None
    ELSE IF StartsWith(img.src, <<"/", "_", "n", "e", "x", "t", "/", "i", "m", "a", "g", "e">>)
    THEN (IF url_parameter(img.src) # Absent THEN unquote(url_parameter(img.src))
          ELSE None)
    ELSE img.src

\* lines 224-227; t is what datetime.now() returns
dbc_published_at(date_el, t) ==
    IF date_el = Absent THEN None ELSE parse_bengali_date(get_text(date_el), t)

\* lines 219-221
dbc_content(pg) ==
    Join(NonEmpty(<<IF pg.subtitle # Absent THEN Strip(pg.subtitle) ELSE <<>>>>
                  \o paragraph_texts(pg.paragraphs)),
         <<"\n", "\n">>)

\* lines 241-247; pg is the page at url
dbc_parse_article(url, pg, t) ==
    [url |-> url,
     title |-> IF pg.title # Absent THEN Strip(pg.title) ELSE <<>>,
     cover_image |-> IF dbc_image_url(pg.image) \in {None, <<>>} THEN <<>>
                     ELSE dbc_image_url(pg.image),
     published_at |-> dbc_published_at(pg.raw_date, t),
     content |-> dbc_content(pg)]

-----------------------------------------------------------------------------
(* Literals of the adapters *)

\* "http"
HTTP ==
    <<"h", "t", "t", "p">>

\* "/articles/"
ARTICLES_MARKER ==
    <<"/", "a", "r", "t", "i", "c", "l", "e", "s", "/">>

\* "https://dbcnews.tv"
DBC_ORIGIN ==
    <<"h", "t", "t", "p", "s", ":", "/", "/", "d", "b", "c", "n", "e", "w",
      "s", ".", "t", "v">>

-----------------------------------------------------------------------------
(* get_article_links, src/main.py 138-148 and 188-199.  A listing page is  *)
(* the sequence of its link elements in document order; soup.select and    *)
(* soup.find_all return their matches in that order.                       *)

\* a mutant: the last occurrence of each link is the one kept
RECURSIVE dedupe_keep_last(_)
dedupe_keep_last(xs) ==
    IF xs = <<>> THEN <<>>
    ELSE IF Head(xs) \in Range(Tail(xs)) THEN dedupe_keep_last(Tail(xs))
    ELSE <<Head(xs)>> \o dedupe_keep_last(Tail(xs))

\* list(dict.fromkeys(xs)): the keys of a dict are in insertion order, and
\* setting a key again does not move it
dedupe(xs) ==
    LET F[i \in 0..Len(xs)] ==
            IF i = 0 THEN <<>>
            ELSE IF xs[i] \in Range(F[i - 1]) THEN F[i - 1]
            ELSE Append(F[i - 1], xs[i])
    IN F[Len(xs)]

\* the selectors of line 141, in order
jamuna_selectors == <<".headline-link", ".entry-title a">>

\* line 146: href and href.startswith("http")
jamuna_takes(href) == href # Absent /\ href # <<>> /\ StartsWith(href, HTTP)

\* lines 142-147: the list links before the duplicates go
jamuna_candidates(pg) ==
    LET of(sel) ==
            LET hit == { i \in 1..Len(pg) :
                           sel \in pg[i].matches /\ jamuna_takes(pg[i].href) }
            IN [ k \in 1..Cardinality(hit) |-> pg[Kth(hit, k)].href ]
    IN of(jamuna_selectors[1]) \o of(jamuna_selectors[2])

jamuna_get_article_links(pg) == dedupe(jamuna_candidates(pg))

\* lines 195-197
dbc_full_url(href) == IF StartsWith(href, HTTP) THEN href ELSE DBC_ORIGIN \o href

\* line 194
dbc_takes(href) == Contains(href, ARTICLES_MARKER)

\* lines 191-198: the list links before the duplicates go
dbc_candidates(pg) ==
    LET hit == { i \in 1..Len(pg) : dbc_takes(pg[i].href) }
    IN [ k \in 1..Cardinality(hit) |-> dbc_full_url(pg[Kth(hit, k)].href) ]

dbc_get_article_links(pg) == dedupe(dbc_candidates(pg))

-----------------------------------------------------------------------------
(* The scraper factory, src/main.py 253-264 *)

\* the keys of SCRAPER_MAP, in the order a loop over the dict takes them
SCRAPER_MAP == <<"jamuna", "dbcnews">>

SCRAPER_CONFIG ==
    [jamuna |-> "https://jamuna.tv/", dbcnews |-> "https://dbcnews.tv/articles"]

\* no url argument (None)
NoUrl == "None"

NoScraper == [source |-> "None", base_url |-> "None"]

\* get_scraper raises ValueError(message)
raises_ValueError(source) ==
    [raised |-> TRUE, message |-> <<"No scraper available for source", source>>]

\* a mutant: an unknown source falls back to the first registered scraper
get_scraper_fallback(source, url) ==
    LET known == IF source \in Range(SCRAPER_MAP) THEN source ELSE SCRAPER_MAP[1]
    IN [raised |-> FALSE,
        scraper |-> [source |-> known,
                     base_url |-> IF url # NoUrl THEN url ELSE SCRAPER_CONFIG[known]]]

get_scraper(source, url) ==
    IF source \notin Range(SCRAPER_MAP) THEN raises_ValueError(source)
    ELSE [raised |-> FALSE,
          scraper |-> [source |-> source,
                       base_url |-> IF url # NoUrl THEN url
                                    ELSE SCRAPER_CONFIG[source]]]

-----------------------------------------------------------------------------
(* save_to_json, src/main.py 267-271.  The write itself is taken to        *)
(* succeed: the disk is not part of the model.                             *)

NoFile == [exists |-> FALSE, data |-> <<>>]

\* a mutant: the file is opened for appending
save_to_json_append(fs, source, data) ==
    [fs EXCEPT ![source] = [exists |-> TRUE, data |-> fs[source].data \o data]]

\* open(..., "w") truncates; fs is the directory before, the value the one after
save_to_json(fs, source, data) ==
    [fs EXCEPT ![source] = [exists |-> TRUE, data |-> data]]

-----------------------------------------------------------------------------
(* NewsScraperBase.scrape, src/main.py 120-131 *)

\* the default of the argument limit
DefaultLimit == 5

\* the record parse_article returns for a link, as far as scrape sees it
Article(url) == [url |-> url]

\* Python: xs[:n] for n >= 0
Truncate(xs, n) == SubSeq(xs, 1, IF n < Len(xs) THEN n ELSE Len(xs))

\* the links the for loop of line 125 iterates over
LoopLinks(xs, n) == Truncate(xs, n)

\* the sequences without repetition over S of length at most n: what
\* get_article_links can return (it ends with list(dict.fromkeys(links)))
LinkSets(S, n) ==
    UNION { { f \in [1..k -> S] : \A i, j \in 1..k : f[i] = f[j] => i = j } :
            k \in 0..n }

\* line 123: await self.get_article_links(client).  It returns some list
\* of distinct links, or the fetch raises and scrape raises with it.
GetArticleLinks(listings) ==
    /\ pc = "get_article_links"
    /\ fetched' = Append(fetched, scraper.base_url)
    /\ \/ \E ls \in listings :
            /\ links' = ls
            /\ pc' = "loop"
            /\ UNCHANGED observed
       \/ /\ pc' = "scrape_raised"
          /\ observed' = observed @@
                (scraper.source :> [failed |-> TRUE, links |-> <<>>, dropped |-> {}])
          /\ UNCHANGED links
    /\ UNCHANGED <<articleVars, dateVars, limit, idx, results, parsed, dropped>>
    /\ UNCHANGED <<request, scraper, queue, allResults, response, files, lastOk>>

\* a mutant: a raising parse ends the loop
parse_raised_abort(n, i) == n

\* the position of the loop after the iteration on the i-th of n links raised
parse_raised(n, i) == i

\* lines 125-130: one iteration of the loop; parse_article returns a record
\* or raises, and the except clause goes on with the next link.
ParseArticle ==
    /\ pc = "loop"
    /\ idx < Len(LoopLinks(links, limit))
    /\ LET url == LoopLinks(links, limit)[idx + 1] IN
       /\ parsed' = Append(parsed, url)
       /\ \/ /\ results' = Append(results, Article(url))
             /\ idx' = idx + 1
             /\ UNCHANGED dropped
          \/ /\ dropped' = dropped \cup {url}
             /\ idx' = parse_raised(Len(LoopLinks(links, limit)), idx + 1)
             /\ UNCHANGED results
    /\ UNCHANGED <<pc, articleVars, dateVars, limit, links, endpointVars>>

\* line 131: return results
ScrapeReturn ==
    /\ pc = "loop"
    /\ idx = Len(LoopLinks(links, limit))
    /\ pc' = "scrape_returned"
    /\ observed' = observed @@
          (scraper.source :> [failed |-> FALSE, links |-> links, dropped |-> dropped])
    /\ lastOk' = [lastOk EXCEPT ![scraper.source] = [exists |-> TRUE, data |-> results]]
    /\ UNCHANGED <<articleVars, dateVars, scrapeVars>>
    /\ UNCHANGED <<request, scraper, fetched, queue, allResults, response, files>>

-----------------------------------------------------------------------------
(* The endpoints, src/main.py 277-306 *)

NoResponse == [status |-> 0]

ScrapeIdle ==
    /\ limit = 0 /\ links = <<>> /\ idx = 0 /\ results = <<>>
    /\ parsed = <<>> /\ dropped = {}

EndpointsUnused ==
    /\ request = [kind |-> "none"]
    /\ scraper = NoScraper
    /\ fetched = <<>>
    /\ queue = <<>>
    /\ allResults = <<>>
    /\ response = NoResponse
    /\ files = [s \in Range(SCRAPER_MAP) |-> NoFile]
    /\ observed = <<>>
    /\ lastOk = [s \in Range(SCRAPER_MAP) |-> NoFile]

DateUnused == raw = None /\ now = NotRead /\ normalized = None

NoRecord == [url |-> None]

ArticleUnused == listing = <<>> /\ page = [url |-> None] /\ record = NoRecord

\* what a new request starts from: the locals of the previous one are gone
NewRequest(req) ==
    /\ request' = req
    /\ fetched' = <<>>
    /\ observed' = <<>>
    /\ allResults' = <<>>
    /\ links' = <<>> /\ idx' = 0 /\ results' = <<>>
    /\ parsed' = <<>> /\ dropped' = {}

\* the source identifiers a client asks for: the registered ones and another
RequestedSources == Range(SCRAPER_MAP) \cup {"prothomalo"}

RequestedUrls == {NoUrl, "https://mirror.example/"}

\* GET /scrape/{source}, lines 297-302: get_scraper, and the 400 answer
\* when it raises; otherwise scrape is entered with the default limit.
ScrapeSingleSource ==
    /\ pc = "idle"
    /\ \E source \in RequestedSources, url \in RequestedUrls :
          LET got == get_scraper(source, url) IN
          /\ NewRequest([kind |-> "single", source |-> source, url |-> url])
          /\ IF got.raised
             THEN /\ response' = [status |-> 400, detail |-> got.message]
                  /\ scraper' = NoScraper
                  /\ pc' = "idle"
             ELSE /\ response' = NoResponse
                  /\ scraper' = got.scraper
                  /\ pc' = "get_article_links"
          /\ limit' = IF got.raised THEN 0 ELSE DefaultLimit
    /\ UNCHANGED <<articleVars, dateVars, queue, files, lastOk>>


\* lines 303-306, scrape returned: the file is written and the records
\* are the answer.
SingleSave ==
    /\ pc = "scrape_returned"
    /\ request.kind = "single"
    /\ files' = save_to_json(files, request.source, results)
    /\ response' = [status |-> 200, body |-> results]
    /\ pc' = "idle"
    /\ UNCHANGED <<articleVars, dateVars, scrapeVars>>
    /\ UNCHANGED <<request, scraper, fetched, queue, allResults, observed, lastOk>>

\* line 303, scrape raised: nothing catches it and the framework answers
\* with a server error.
SingleRaise ==
    /\ pc = "scrape_raised"
    /\ request.kind = "single"
    /\ response' = [status |-> 500]
    /\ pc' = "idle"
    /\ UNCHANGED <<articleVars, dateVars, scrapeVars>>
    /\ UNCHANGED <<request, scraper, fetched, queue, allResults, files, observed, lastOk>>

\* GET /scrape-all, lines 279-281: the loop over SCRAPER_MAP is entered
ScrapeAll ==
    /\ pc = "idle"
    /\ NewRequest([kind |-> "all"])
    /\ limit' = 0
    /\ scraper' = NoScraper
    /\ queue' = SCRAPER_MAP
    /\ response' = NoResponse
    /\ pc' = "all_loop"
    /\ UNCHANGED <<articleVars, dateVars, files, lastOk>>

\* lines 281-284: the next source; get_scraper, then scrape is entered
AllNextSource ==
    /\ pc = "all_loop"
    /\ queue # <<>>
    /\ LET got == get_scraper(Head(queue), NoUrl) IN
       IF got.raised
       THEN /\ allResults' = allResults @@
                  (Head(queue) :> [kind |-> "error", error |-> got.message])
            /\ queue' = Tail(queue)
            /\ UNCHANGED <<pc, scraper, limit>>
       ELSE /\ scraper' = got.scraper
            /\ limit' = DefaultLimit
            /\ pc' = "get_article_links"
            /\ UNCHANGED <<queue, allResults>>
    /\ links' = <<>> /\ idx' = 0 /\ results' = <<>> /\ parsed' = <<>> /\ dropped' = {}
    /\ UNCHANGED <<articleVars, dateVars, request, fetched, response, files, observed, lastOk>>

\* lines 285-287, scrape returned: the entry of the source and its file
AllSave ==
    /\ pc = "scrape_returned"
    /\ request.kind = "all"
    /\ allResults' = allResults @@ (Head(queue) :> [kind |-> "records", data |-> results])
    /\ files' = save_to_json(files, Head(queue), results)
    /\ queue' = Tail(queue)
    /\ pc' = "all_loop"
    /\ UNCHANGED <<articleVars, dateVars, scrapeVars>>
    /\ UNCHANGED <<request, scraper, fetched, response, observed, lastOk>>

\* a mutant: the exception of one source leaves the loop and the handler
AllError_propagates ==
    /\ pc = "scrape_raised"
    /\ request.kind = "all"
    /\ response' = [status |-> 500]
    /\ pc' = "idle"
    /\ UNCHANGED <<articleVars, dateVars, scrapeVars>>
    /\ UNCHANGED <<request, scraper, fetched, queue, allResults, files, observed, lastOk>>

\* lines 288-289, scrape raised: the entry of the source is the error
AllError ==
    /\ pc = "scrape_raised"
    /\ request.kind = "all"
    /\ allResults' = allResults @@
          (Head(queue) :> [kind |-> "error", error |-> <<"fetch failed", scraper.base_url>>])
    /\ queue' = Tail(queue)
    /\ pc' = "all_loop"
    /\ UNCHANGED <<articleVars, dateVars, scrapeVars>>
    /\ UNCHANGED <<request, scraper, fetched, response, files, observed, lastOk>>

\* line 290: return results
AllReturn ==
    /\ pc = "all_loop"
    /\ queue = <<>>
    /\ response' = [status |-> 200, body |-> allResults]
    /\ pc' = "idle"
    /\ UNCHANGED <<articleVars, dateVars, scrapeVars>>
    /\ UNCHANGED <<request, scraper, fetched, queue, allResults, files, observed, lastOk>>

\* the articles a listing page of the endpoints' model links to
NumArticles == 2

Listings == LinkSets(1..NumArticles, NumArticles)

Init ==
    /\ pc = "idle"
    /\ DateUnused /\ ScrapeIdle /\ EndpointsUnused /\ ArticleUnused

Next ==
    \/ ScrapeSingleSource
    \/ ScrapeAll
    \/ GetArticleLinks(Listings)
    \/ ParseArticle
    \/ ScrapeReturn
    \/ SingleSave
    \/ SingleRaise
    \/ AllNextSource
    \/ AllSave
    \/ AllError
    \/ AllReturn

Spec == Init /\ [][Next]_vars

-----------------------------------------------------------------------------
(* scrape called with any limit on any adapter *)

\* the links of a listing page, and the largest limit tried
NumLinks == 5
MaxLimit == 6

\* scrape(client, limit) is called on an adapter
CallScrape ==
    /\ pc = "idle"
    /\ \E source \in Range(SCRAPER_MAP), lim \in 0..MaxLimit :
          /\ NewRequest([kind |-> "scrape", source |-> source, url |-> NoUrl])
          /\ scraper' = get_scraper(source, NoUrl).scraper
          /\ limit' = lim
    /\ response' = NoResponse
    /\ pc' = "get_article_links"
    /\ UNCHANGED <<articleVars, dateVars, queue, files, lastOk>>

\* the caller has the list scrape returned, or its exception
ScrapeFinish ==
    /\ pc \in {"scrape_returned", "scrape_raised"}
    /\ request.kind = "scrape"
    /\ response' = IF pc = "scrape_returned"
                   THEN [status |-> 200, body |-> results] ELSE [status |-> 500]
    /\ pc' = "done"
    /\ UNCHANGED <<articleVars, dateVars, scrapeVars>>
    /\ UNCHANGED <<request, scraper, fetched, queue, allResults, files, observed, lastOk>>

NextScrape ==
    \/ CallScrape
    \/ GetArticleLinks(LinkSets(1..NumLinks, NumLinks))
    \/ ParseArticle
    \/ ScrapeReturn
    \/ ScrapeFinish

SpecScrape == Init /\ [][NextScrape]_vars

-----------------------------------------------------------------------------
(* Claims about scrape (checked under SpecScrape) *)

\* the positions among the first lim of ls whose link is not in bad
KeptPositions(ls, lim, bad) ==
    { i \in 1..Len(ls) : i <= lim /\ ls[i] \notin bad }

\* the records scrape owes for the links ls, the limit lim and the links
\* bad whose parse raised
Owed(ls, lim, bad, rs) ==
    LET kept == KeptPositions(ls, lim, bad) IN
    /\ Len(rs) = Cardinality(kept)
    /\ \A k \in 1..Len(rs) : rs[k] = [url |-> ls[Kth(kept, k)]]

\* C1: scrape returns exactly the records of the links among the first
\* limit discovered links whose parse did not raise, one each, in link
\* order; every one of the first limit links was parsed, whatever the
\* parses before it did, and no link beyond them.
C1_ScrapePartialFailure ==
    pc = "scrape_returned" =>
      /\ Owed(links, limit, dropped, results)
      /\ Len(parsed) = (IF limit < Len(links) THEN limit ELSE Len(links))
      /\ \A i \in 1..Len(parsed) : parsed[i] = links[i]

\* the third of five links raised and four records came back
C1_Witness ==
    /\ pc = "scrape_returned"
    /\ Len(links) = 5 /\ limit = 5
    /\ dropped = {links[3]}
    /\ results = <<Article(links[1]), Article(links[2]), Article(links[4]),
                   Article(links[5])>>

-----------------------------------------------------------------------------
(* Claims about the endpoints (checked under Spec) *)

C8_UnknownSource ==
    [][ (pc = "idle" /\ request'.kind = "single"
            /\ request'.source \notin Range(SCRAPER_MAP)) =>
          /\ pc' = "idle"
          /\ response'.status = 400
          /\ response'.detail = <<"No scraper available for source", request'.source>>
          /\ scraper' = NoScraper
          /\ fetched' = <<>> /\ parsed' = <<>>
          /\ files' = files ]_vars

\* the 400 answer, given while a file of an earlier scrape exists
C8_Witness ==
    /\ pc = "idle"
    /\ request.kind = "single" /\ request.source = "prothomalo"
    /\ response.status = 400
    /\ scraper = NoScraper /\ fetched = <<>>
    /\ files["jamuna"].exists /\ files["jamuna"].data # <<>>

\* C10: the file of a source holds exactly what the most recent scrape of
\* that source that returned, returned (between the return and the write,
\* still the one before); so a scrape that raised and a scrape of another
\* source leave it as it was.
C10_FileIsLastScrape ==
    \A s \in Range(SCRAPER_MAP) :
        \/ files[s] = lastOk[s]
        \/ pc = "scrape_returned" /\ scraper.source = s

\* a single-source scrape whose discovery failed, after which the file an
\* earlier scrape wrote is still there
C10_Witness ==
    /\ pc = "idle"
    /\ request.kind = "single" /\ response.status = 500
    /\ files[request.source].exists
    /\ Len(files[request.source].data) = 2
    /\ files[request.source] = lastOk[request.source]

-----------------------------------------------------------------------------
(* The date strings and the clock values parse_bengali_date is called on *)

\* a number written with Bengali digits: B(<<2, 1>>) is "২১"
B(ds) == [ i \in 1..Len(ds) |-> bengali_digits[ds[i] + 1] ]

\* "শুক্রবার" (Friday): a token before the day
WEEKDAY == <<"u09B6", "u09C1", "u0995", "u09CD", "u09B0", "u09AC", "u09BE", "u09B0">>
\* "সপ্তাহ" (week): a unit the code does not know
WEEK_WORD == <<"u09B8", "u09AA", "u09CD", "u09A4", "u09BE", "u09B9">>

\* day tokens with the two digits they stand for: "৯ই", "২১শে"
GoodDays ==
    { [tok |-> B(<<9>>) \o <<"u0987">>, txt |-> <<"0", "9">>],
      [tok |-> B(<<2, 1>>) \o <<"u09B6", "u09C7">>, txt |-> <<"2", "1">>] }
\* month names of the table with their numbers: "মে", "ডিসেম্বর"
GoodMonths ==
    { [tok |-> months[5][1], txt |-> <<"0", "5">>],
      [tok |-> months[12][1], txt |-> <<"1", "2">>] }
\* "২০২৫"
GoodYears == { [tok |-> B(<<2, 0, 2, 5>>), txt |-> <<"2", "0", "2", "5">>] }
\* times on the 12-hour clock: "০১:০৫:৫১", "১২:৩০", "১১:৫৯:৫৯"
GoodTimes ==
    { [tok |-> B(<<0, 1>>) \o <<":">> \o B(<<0, 5>>) \o <<":">> \o B(<<5, 1>>),
       h |-> 1, m |-> 5, s |-> 51],
      [tok |-> B(<<1, 2>>) \o <<":">> \o B(<<3, 0>>), h |-> 12, m |-> 30, s |-> 0],
      [tok |-> B(<<1, 1>>) \o <<":">> \o B(<<5, 9>>) \o <<":">> \o B(<<5, 9>>),
       h |-> 11, m |-> 59, s |-> 59] }
Meridiems == {AM, PM}

DayTokens == { d.tok : d \in GoodDays } \cup { <<"9", "t", "h">> }
MonthTokens == { m.tok : m \in GoodMonths } \cup { <<"M", "a", "y">> }
YearTokens == { y.tok : y \in GoodYears } \cup { <<"a", "b", "c", "d">>, B(<<2, 5>>) }
TimeTokens ==
    { t.tok : t \in GoodTimes }
    \cup { B(<<1, 2>>), B(<<0, 1>>) \o <<":", "x", "x">>,
           B(<<9, 9>>) \o <<":">> \o B(<<1, 2, 3>>) }
MeridiemTokens == Meridiems \cup { <<"P", "M">> }

\* [weekday] [day] [month] [year] [time] [meridiem], with any tokens left out
AbsoluteInputs ==
    { Join(Pick(<<w, d, m, y, t, a>>, keep), <<" ">>) :
        w \in {WEEKDAY}, d \in DayTokens, m \in MonthTokens, y \in YearTokens,
        t \in TimeTokens, a \in MeridiemTokens, keep \in SUBSET (1..6) }

\* "৩ ঘন্টা আগে"
ThreeHoursAgo == Join(<<B(<<3>>), HOUR_WORD, AGO>>, <<" ">>)

RelativeInputs ==
    { Join(<<n, u, AGO>>, <<" ">>) :
        n \in { B(<<3>>), B(<<1>>), B(<<3, 0>>), <<"3">>, <<"x">> },
        u \in { MINUTE_WORD, HOUR_WORD, DAY_WORD, WEEK_WORD } }
    \cup { AGO,
           B(<<3>>) \o HOUR_WORD \o <<" ">> \o AGO,
           <<" ">> \o ThreeHoursAgo \o <<" ">>,
           Join(<<B(<<3>>), <<>>, HOUR_WORD, AGO>>, <<" ">>) }

\* "৯ই মে ২০২৫ ০১:০৫:৫১ অপরাহ্ন", the example of the comment at line 64
AbsoluteExample ==
    Join(<<B(<<9>>) \o <<"u0987">>, months[5][1], B(<<2, 0, 2, 5>>),
           B(<<0, 1>>) \o <<":">> \o B(<<0, 5>>) \o <<":">> \o B(<<5, 1>>), PM>>,
         <<" ">>)

DateInputs ==
    AbsoluteInputs \cup RelativeInputs
    \cup { None, <<>>, <<" ">>, <<" ">> \o AbsoluteExample \o <<" ">>,
           <<" ">> \o WEEKDAY \o <<" ">> \o AbsoluteExample }

\* values of datetime.now()
Clock ==
    { t \in [year : {2025}, month : {2, 5}, day : {1, 2, 9, 28},
             hour : {0, 2, 3, 13, 23}, minute : {0, 5, 59}, second : {0, 51},
             microsecond : {0, 123456}] : ValidDateTime(t) }

-----------------------------------------------------------------------------
(* A call of parse_bengali_date *)

InitDate ==
    /\ pc = "call"
    /\ raw \in DateInputs
    /\ now = NotRead
    /\ normalized = None
    /\ ScrapeIdle /\ EndpointsUnused /\ ArticleUnused

\* the whole call; datetime.now() is read at line 51 only
Normalize ==
    /\ pc = "call"
    /\ \E t \in (IF is_relative(raw) THEN Clock ELSE {NotRead}) :
          /\ now' = t
          /\ normalized' = parse_bengali_date(raw, t)
    /\ pc' = "returned"
    /\ UNCHANGED <<raw, scrapeVars, endpointVars, articleVars>>

NextDate == Normalize

SpecDate == InitDate /\ [][NextDate]_vars

-----------------------------------------------------------------------------
(* Claims about parse_bengali_date (checked under SpecDate) *)

\* YYYY-MM-DDTHH:MM:SS
IsTimestamp(s) ==
    /\ Len(s) = 19
    /\ \A i \in {1, 2, 3, 4, 6, 7, 9, 10, 12, 13, 15, 16, 18, 19} :
          s[i] \in Range(AsciiDigits)
    /\ s[5] = "-" /\ s[8] = "-" /\ s[11] = "T" /\ s[14] = ":" /\ s[17] = ":"

\* the hour on the 24-hour clock of hour h (1..12) with meridiem a
Hour24(h, a) ==
    IF a = AM THEN (IF h = 12 THEN 0 ELSE h) ELSE (IF h = 12 THEN 12 ELSE h + 12)

\* C3: a call on the five tokens [day+suffix] [month] [year] [HH:MM[:SS]]
\* [meridiem] returns year-month-dayThour:minute:second, the day padded,
\* the month from the table, the hour adjusted by the meridiem; the
\* example of line 64 returns "2025-05-09T13:05:51".
C3_AbsoluteFiveTokens ==
    pc = "returned" =>
      /\ raw = AbsoluteExample =>
            normalized = <<"2", "0", "2", "5", "-", "0", "5", "-", "0", "9", "T",
                           "1", "3", ":", "0", "5", ":", "5", "1">>
      /\ \A d \in GoodDays, m \in GoodMonths, y \in GoodYears, t \in GoodTimes,
            a \in Meridiems :
            raw = Join(<<d.tok, m.tok, y.tok, t.tok, a>>, <<" ">>) =>
              normalized = y.txt \o <<"-">> \o m.txt \o <<"-">> \o d.txt \o <<"T">>
                           \o Pad(Hour24(t.h, a), 2) \o <<":">> \o Pad(t.m, 2)
                           \o <<":">> \o Pad(t.s, 2)

\* What the code does with the same fields after one more leading token
\* (the weekday): the format C3 describes.
AbsoluteSixTokens ==
    pc = "returned" =>
      \A d \in GoodDays, m \in GoodMonths, y \in GoodYears, t \in GoodTimes,
         a \in Meridiems :
         raw = Join(<<WEEKDAY, d.tok, m.tok, y.tok, t.tok, a>>, <<" ">>) =>
           normalized = y.txt \o <<"-">> \o m.txt \o <<"-">> \o d.txt \o <<"T">>
                        \o Pad(Hour24(t.h, a), 2) \o <<":">> \o Pad(t.m, 2)
                        \o <<":">> \o Pad(t.s, 2)

\* the day before t's day
PrevDay(t) ==
    IF t.day > 1 THEN [t EXCEPT !.day = t.day - 1]
    ELSE IF t.month > 1
         THEN [t EXCEPT !.month = t.month - 1,
                        !.day = DaysInMonth(t.year, t.month - 1)]
         ELSE [t EXCEPT !.year = t.year - 1, !.month = 12, !.day = 31]

\* the instant n hours (n <= 24) before t
HoursBefore(t, n) ==
    IF t.hour >= n THEN [t EXCEPT !.hour = t.hour - n]
    ELSE [PrevDay(t) EXCEPT !.hour = t.hour + 24 - n]

\* C4: at every call instant, a call on "৩ ঘন্টা আগে" returns the timestamp
\* of the instant exactly 3 hours before, minute and second unchanged.
C4_ThreeHoursBefore ==
    (pc = "returned" /\ raw = ThreeHoursAgo) =>
        normalized = isoformat(HoursBefore(now, 3))

\* What the code does: the same, when the hour of the call is 3 or later.
ThreeHoursBeforeSameDay ==
    (pc = "returned" /\ raw = ThreeHoursAgo /\ now.hour >= 3) =>
        normalized = isoformat(HoursBefore(now, 3))

\* C5: every call returns None or a string of the shape
\* YYYY-MM-DDTHH:MM:SS.
C5_NoneOrTimestamp ==
    pc = "returned" => (normalized = None \/ IsTimestamp(normalized))

\* What the code does with a token sequence too short to hold the time and
\* meridiem tokens: None.
FewerThanSixTokensIsNone ==
    (pc = "returned" /\ ~is_relative(raw) /\ raw # None
        /\ Len(Split(Strip(raw), " ")) < 6) => normalized = None


-----------------------------------------------------------------------------
(* Texts of the article pages *)

\* "https://jamuna.tv/news/1"
JamunaArticleUrl ==
    <<"h", "t", "t", "p", "s", ":", "/", "/", "j", "a", "m", "u", "n", "a",
      ".", "t", "v", "/", "n", "e", "w", "s", "/", "1">>

\* "https://jamuna.tv/a.jpg"
JamunaImageSrc ==
    <<"h", "t", "t", "p", "s", ":", "/", "/", "j", "a", "m", "u", "n", "a",
      ".", "t", "v", "/", "a", ".", "j", "p", "g">>

\* "9th May, 2025 01:05 PM"
JamunaDate ==
    <<"9", "t", "h", " ", "M", "a", "y", ",", " ", "2", "0", "2", "5", " ",
      "0", "1", ":", "0", "5", " ", "P", "M">>

\* "21st December 2025 12:30 am"
JamunaDateMidnight ==
    <<"2", "1", "s", "t", " ", "D", "e", "c", "e", "m", "b", "e", "r", " ",
      "2", "0", "2", "5", " ", "1", "2", ":", "3", "0", " ", "a", "m">>

\* "9th May 2025 ,  1:05 PM"
JamunaDateSpaced ==
    <<"9", "t", "h", " ", "M", "a", "y", " ", "2", "0", "2", "5", " ", ",",
      " ", " ", "1", ":", "0", "5", " ", "P", "M">>

\* "31st February, 2025 10:00 AM"
JamunaDateNoSuchDay ==
    <<"3", "1", "s", "t", " ", "F", "e", "b", "r", "u", "a", "r", "y", ",",
      " ", "2", "0", "2", "5", " ", "1", "0", ":", "0", "0", " ", "A", "M">>

\* "9 May 2025 13:05 PM"
JamunaDate24h ==
    <<"9", " ", "M", "a", "y", " ", "2", "0", "2", "5", " ", "1", "3", ":",
      "0", "5", " ", "P", "M">>

\* "2 hours ago"
JamunaDateWords ==
    <<"2", " ", "h", "o", "u", "r", "s", " ", "a", "g", "o">>

\* "  Flood  alert "
TitleText ==
    <<" ", " ", "F", "l", "o", "o", "d", " ", " ", "a", "l", "e", "r", "t",
      " ">>

\* " First. "
ParagraphText ==
    <<" ", "F", "i", "r", "s", "t", ".", " ">>

\* "Second."
OtherParagraphText ==
    <<"S", "e", "c", "o", "n", "d", ".">>

\* " In brief "
SubtitleText ==
    <<" ", "I", "n", " ", "b", "r", "i", "e", "f", " ">>

\* "https://dbcnews.tv/articles/1"
DBCArticleUrl ==
    <<"h", "t", "t", "p", "s", ":", "/", "/", "d", "b", "c", "n", "e", "w",
      "s", ".", "t", "v", "/", "a", "r", "t", "i", "c", "l", "e", "s", "/",
      "1">>

\* "https://api.dbcnews.tv/a.jpg"
DBCImageSrc ==
    <<"h", "t", "t", "p", "s", ":", "/", "/", "a", "p", "i", ".", "d", "b",
      "c", "n", "e", "w", "s", ".", "t", "v", "/", "a", ".", "j", "p", "g">>

\* "/_next/image?url=https%3A%2F%2Fapi.dbcnews.tv%2Fa.jpg&w=640"
DBCProxiedImageSrc ==
    <<"/", "_", "n", "e", "x", "t", "/", "i", "m", "a", "g", "e", "?", "u",
      "r", "l", "=", "h", "t", "t", "p", "s", "%", "3", "A", "%", "2", "F",
      "%", "2", "F", "a", "p", "i", ".", "d", "b", "c", "n", "e", "w", "s",
      ".", "t", "v", "%", "2", "F", "a", ".", "j", "p", "g", "&", "w", "=",
      "6", "4", "0">>

\* "/_next/image?w=640&src=api.dbcnews.tv"
DBCProxiedNoUrlSrc ==
    <<"/", "_", "n", "e", "x", "t", "/", "i", "m", "a", "g", "e", "?", "w",
      "=", "6", "4", "0", "&", "s", "r", "c", "=", "a", "p", "i", ".", "d",
      "b", "c", "n", "e", "w", "s", ".", "t", "v">>

-----------------------------------------------------------------------------
(* The article pages parse_article is called on *)

Paragraphs ==
    { <<>>, <<ParagraphText>>, <<ParagraphText, <<" ">>, OtherParagraphText>> }

\* what the selectors of lines 156-159 find on a Jamuna article page
JamunaPages ==
    [ url : {JamunaArticleUrl},
      title : {Absent, TitleText},
      image : {NoImage, [src |-> Absent], [src |-> JamunaImageSrc]},
      raw_date : {Absent, <<>>, JamunaDate, JamunaDateMidnight, JamunaDateSpaced,
                  JamunaDateNoSuchDay, JamunaDate24h, JamunaDateWords},
      paragraphs : Paragraphs ]

\* "শুক্রবার ৯ই মে ২০২৫ ০১:০৫:৫১ অপরাহ্ন"
DBCDate == WEEKDAY \o <<" ">> \o AbsoluteExample
\* "শুক্রবার ৯ই মে abcd ০১:০৫:৫১ অপরাহ্ন"
DBCDateBadYear ==
    Join(<<WEEKDAY, B(<<9>>) \o <<"u0987">>, months[5][1], <<"a", "b", "c", "d">>,
           B(<<0, 1>>) \o <<":">> \o B(<<0, 5>>) \o <<":">> \o B(<<5, 1>>), PM>>,
         <<" ">>)

\* what the selectors of lines 207-217 find on a DBC News article page
DBCPages ==
    [ url : {DBCArticleUrl},
      title : {Absent, TitleText},
      subtitle : {Absent, SubtitleText},
      image : {NoImage, [src |-> DBCImageSrc], [src |-> DBCProxiedImageSrc],
               [src |-> DBCProxiedNoUrlSrc]},
      raw_date : {Absent, <<>>, DBCDate, AbsoluteExample, DBCDateBadYear,
                  <<" ">> \o ThreeHoursAgo},
      paragraphs : Paragraphs ]

\* values of datetime.now() while an article is parsed
ArticleClock ==
    { t \in Clock : t.day = 9 /\ t.month = 5 /\ t.minute = 5 /\ t.second = 51
                    /\ t.hour \in {2, 13} }

-----------------------------------------------------------------------------
(* A call of parse_article *)

InitArticle ==
    /\ pc = "call"
    /\ \/ scraper = get_scraper("jamuna", NoUrl).scraper /\ page \in JamunaPages
       \/ scraper = get_scraper("dbcnews", NoUrl).scraper /\ page \in DBCPages
    /\ record = NoRecord
    /\ listing = <<>>
    /\ DateUnused /\ ScrapeIdle
    /\ request = [kind |-> "none"]
    /\ fetched = <<>> /\ queue = <<>> /\ allResults = <<>> /\ response = NoResponse
    /\ files = [s \in Range(SCRAPER_MAP) |-> NoFile]
    /\ observed = <<>>
    /\ lastOk = [s \in Range(SCRAPER_MAP) |-> NoFile]

\* JamunaScraper.parse_article: the fetch of line 153 raises, or the
\* record is returned
JamunaParseArticle ==
    /\ pc = "call"
    /\ scraper.source = "jamuna"
    /\ \/ /\ record' = jamuna_parse_article(page.url, page)
          /\ pc' = "returned"
       \/ /\ pc' = "raised"
          /\ UNCHANGED record
    /\ UNCHANGED <<listing, page, dateVars, scrapeVars, endpointVars>>

\* DBCNewsScraper.parse_article: the fetch of line 204 raises, or the
\* record is returned; parse_bengali_date reads the clock for a relative date
DBCParseArticle ==
    /\ pc = "call"
    /\ scraper.source = "dbcnews"
    /\ \/ \E t \in (IF page.raw_date # Absent /\ is_relative(get_text(page.raw_date))
                    THEN ArticleClock ELSE {NotRead}) :
            /\ now' = t
            /\ record' = dbc_parse_article(page.url, page, t)
            /\ pc' = "returned"
       \/ /\ pc' = "raised"
          /\ UNCHANGED <<record, now>>
    /\ UNCHANGED <<listing, page, raw, normalized, scrapeVars, endpointVars>>

NextArticle == JamunaParseArticle \/ DBCParseArticle

SpecArticle == InitArticle /\ [][NextArticle]_vars

-----------------------------------------------------------------------------
(* Claims about parse_article (checked under SpecArticle) *)

\* C6: published_at is None or a timestamp YYYY-MM-DDTHH:MM:SS, and it is
\* None when the page has no date element; it is never the raw date text.
C6_PublishedAtNormalized ==
    pc = "returned" =>
      /\ record.published_at = None \/ IsTimestamp(record.published_at)
      /\ page.raw_date = Absent => record.published_at = None

\* What the code does: without a date element, None.
NoDateElementIsNone ==
    (pc = "returned" /\ page.raw_date = Absent) => record.published_at = None

\* C9: every record has the keys url, title, cover_image, published_at,
\* content and source; missing data is an empty string (title,
\* cover_image, content) or None (published_at).
C9_FixedShape ==
    pc = "returned" =>
      /\ DOMAIN record =
            {"url", "title", "cover_image", "published_at", "content", "source"}
      /\ record.title # None /\ record.cover_image # None /\ record.content # None

\* What the code does: five keys, always the same, and no source.
FiveKeys ==
    pc = "returned" =>
      DOMAIN record = {"url", "title", "cover_image", "published_at", "content"}

\* What the code does: only Jamuna's cover_image can be None, for an
\* <img> without a src.
TextFieldsAreStrings ==
    pc = "returned" =>
      /\ record.title # None /\ record.content # None
      /\ record.cover_image = None =>
            (scraper.source = "jamuna" /\ page.image = [src |-> Absent])


-----------------------------------------------------------------------------
(* The listing pages get_article_links is called on *)

\* "https://jamuna.tv/news/1"
JamunaHref1 ==
    <<"h", "t", "t", "p", "s", ":", "/", "/", "j", "a", "m", "u", "n", "a",
      ".", "t", "v", "/", "n", "e", "w", "s", "/", "1">>

\* "https://jamuna.tv/news/2"
JamunaHref2 ==
    <<"h", "t", "t", "p", "s", ":", "/", "/", "j", "a", "m", "u", "n", "a",
      ".", "t", "v", "/", "n", "e", "w", "s", "/", "2">>

\* "/news/3"
JamunaHrefRelative ==
    <<"/", "n", "e", "w", "s", "/", "3">>

\* "/articles/1"
DBCHrefRelative1 ==
    <<"/", "a", "r", "t", "i", "c", "l", "e", "s", "/", "1">>

\* "https://dbcnews.tv/articles/1"
DBCHrefAbsolute1 ==
    <<"h", "t", "t", "p", "s", ":", "/", "/", "d", "b", "c", "n", "e", "w",
      "s", ".", "t", "v", "/", "a", "r", "t", "i", "c", "l", "e", "s", "/",
      "1">>

\* "/articles/2"
DBCHrefRelative2 ==
    <<"/", "a", "r", "t", "i", "c", "l", "e", "s", "/", "2">>

\* "/about"
DBCHrefOther ==
    <<"/", "a", "b", "o", "u", "t">>

\* the most link elements on a listing page
MaxAnchors == 3

\* an element with the selectors of line 141 it matches
JamunaElements ==
    [ href : {JamunaHref1, JamunaHref2, JamunaHrefRelative},
      matches : { {".headline-link"}, {".entry-title a"},
                  {".headline-link", ".entry-title a"} } ]

\* an <a href=...>
DBCElements ==
    [ href : {DBCHrefRelative1, DBCHrefAbsolute1, DBCHrefRelative2, DBCHrefOther} ]

PagesOf(elements) == UNION { [1..n -> elements] : n \in 0..MaxAnchors }

InitLinks ==
    /\ pc = "call"
    /\ \/ /\ scraper = get_scraper("jamuna", NoUrl).scraper
          /\ listing \in PagesOf(JamunaElements)
       \/ /\ scraper = get_scraper("dbcnews", NoUrl).scraper
          /\ listing \in PagesOf(DBCElements)
    /\ page = [url |-> None] /\ record = NoRecord
    /\ DateUnused /\ ScrapeIdle
    /\ request = [kind |-> "none"]
    /\ fetched = <<>> /\ queue = <<>> /\ allResults = <<>> /\ response = NoResponse
    /\ files = [s \in Range(SCRAPER_MAP) |-> NoFile]
    /\ observed = <<>>
    /\ lastOk = [s \in Range(SCRAPER_MAP) |-> NoFile]

\* JamunaScraper.get_article_links: the fetch of line 139 raises, or the
\* list is returned
JamunaGetArticleLinks ==
    /\ pc = "call"
    /\ scraper.source = "jamuna"
    /\ \/ /\ links' = jamuna_get_article_links(listing)
          /\ pc' = "returned"
       \/ /\ pc' = "raised"
          /\ UNCHANGED links
    /\ UNCHANGED <<articleVars, dateVars, limit, idx, results, parsed, dropped, endpointVars>>

\* DBCNewsScraper.get_article_links: the fetch of line 189 raises, or the
\* list is returned
DBCGetArticleLinks ==
    /\ pc = "call"
    /\ scraper.source = "dbcnews"
    /\ \/ /\ links' = dbc_get_article_links(listing)
          /\ pc' = "returned"
       \/ /\ pc' = "raised"
          /\ UNCHANGED links
    /\ UNCHANGED <<articleVars, dateVars, limit, idx, results, parsed, dropped, endpointVars>>

NextLinks == JamunaGetArticleLinks \/ DBCGetArticleLinks

SpecLinks == InitLinks /\ [][NextLinks]_vars

-----------------------------------------------------------------------------
(* Claims about get_article_links (checked under SpecLinks) *)

\* the URL the adapter takes from the i-th element of the listing
UrlAt(i) ==
    IF scraper.source = "jamuna" THEN listing[i].href
    ELSE dbc_full_url(listing[i].href)

\* the elements of the listing the adapter selects
Selected ==
    IF scraper.source = "jamuna"
    THEN { i \in 1..Len(listing) :
             listing[i].matches # {} /\ jamuna_takes(listing[i].href) }
    ELSE { i \in 1..Len(listing) : dbc_takes(listing[i].href) }

\* where on the page the URL u is first selected
FirstOnPage(u) == Min({ i \in Selected : UrlAt(i) = u })

\* where in the adapter's pass over the page the URL u first comes up:
\* Jamuna takes every match of ".headline-link" and then every match of
\* ".entry-title a"; DBC News takes the anchors in document order
FirstInPass(u) ==
    IF scraper.source = "jamuna"
    THEN Min({ (IF ".headline-link" \in listing[i].matches THEN 0 ELSE Len(listing)) + i :
               i \in { j \in Selected : UrlAt(j) = u } })
    ELSE FirstOnPage(u)

NoUrlTwice == \A a, b \in 1..Len(links) : links[a] = links[b] => a = b

AllSelected == Range(links) = { UrlAt(i) : i \in Selected }

=============================================================================
